---- MODULE Spec2Model ----
(***************************************************************************)
(* The lazy-loading and caching state machine of pyhis/core.py: a Source   *)
(* with its site mapping, a Site with its site-detail payload, time-series *)
(* list and data frame, and a TimeSeries with its value series and         *)
(* quantity.  Every accessor (a Python property) is one action; a gateway  *)
(* answer is an input of the access that asks for it, and the Cache Store  *)
(* is state that the accessors and other processes write.                  *)
(*                                                                         *)
(* An attribute that the instance has not assigned yet reads as the class  *)
(* attribute (core.py 32-35, 127, 169-170).  It is modelled as the empty   *)
(* sequence <<>>; an assigned attribute is <<value>>.                      *)
(***************************************************************************)
EXTENDS Naturals, Sequences, FiniteSets

VARIABLES
    cache,          \* the module-level name `cache`: TRUE a Cache Store, FALSE None
    frame_truth,    \* what bool(DataFrame) does in the installed pandas
    Source,         \* Source instances: [_use_cache, _sites]
    Site,           \* Site instances: [_use_cache, _site_info, _timeseries_list, _dataframe]
    TimeSeries,     \* TimeSeries instances built by the caller: [variable, _series, _quantity]
    cached_sites,   \* Cache Store: the site mapping kept for each Source
    cached_timeseries, \* Cache Store: the time-series list kept for each Site
    last            \* the last accessor call: what it did and what it returned

vars == <<cache, frame_truth, Source, Site, TimeSeries, cached_sites,
          cached_timeseries, last>>

(***************************************************************************)
(* Bounds and the small sets the inputs are drawn from.                    *)
(***************************************************************************)
MaxSites == 2       \* longest GetSites answer
MaxSeries == 1      \* longest series catalog and longest cached time-series list

SeqsUpTo(S, n) == UNION {[1..k -> S] : k \in 0..n}

\* The collaborator operations.
GatewayOps == {"GetSites", "GetSiteInfoObject", "GetValuesObject"}
CacheOps == {"_get_cached_sites", "_update_cache_sites",
             "_get_cached_timeseries_list", "_update_cache_timeseries"}
CollaboratorOps == GatewayOps \cup CacheOps

\* The calls of the operations `ops` in a log, in order.
Calls(log, ops) == SelectSeq(log, LAMBDA e : e.op \in ops)
Count(log, ops) == Len(Calls(log, ops))

\* A collaborator call whose failure is swallowed.
Call_suppressed(r, op, val, fault) ==
    IF Count(r.log, CollaboratorOps) + 1 = fault
    THEN [r EXCEPT !.log = Append(@, [op |-> op, val |-> <<>>])]
    ELSE [r EXCEPT !.log = Append(@, [op |-> op, val |-> <<val>>])]

\* A collaborator call with the given result: the call whose number in this
\* access is `fault` raises a transport error instead.
Call(r, op, val, fault) ==
    IF Count(r.log, CollaboratorOps) + 1 = fault
    THEN [r EXCEPT !.log = Append(@, [op |-> op, val |-> <<>>]),
                   !.err = "TransportError"]
    ELSE [r EXCEPT !.log = Append(@, [op |-> op, val |-> <<val>>])]

\* An assignment to an instance attribute, noted in the log.
Note(r, attr) == [r EXCEPT !.log = Append(@, [op |-> attr, val |-> <<>>])]

\* dict(pairs): a later pair replaces an earlier one with the same key.
dict(pairs) ==
    {pairs[i] : i \in {i \in 1..Len(pairs) :
                         \A j \in (i+1)..Len(pairs) : pairs[j][1] # pairs[i][1]}}

(***************************************************************************)
(* Source                                                                  *)
(***************************************************************************)
\* GetSites answers: get_all_sites_query.site, a list of site descriptors.
Descriptors ==
    { [network |-> "NWISDV", code |-> "01234"],
      [network |-> "NWISDV", code |-> "05678"],
      [network |-> "NWISUV", code |-> "01234"] }
SiteLists == SeqsUpTo(Descriptors, MaxSites)

\* util._site_from_wml_siteInfo(site, source): a Site bound to the Source.
_site_from_wml_siteInfo(site, source) ==
    [code |-> site.code, network |-> site.network, source |-> source]

\* The list comprehension of core.py 151-152.
site_list_of(answer, source) ==
    [i \in 1..Len(answer) |-> _site_from_wml_siteInfo(answer[i], source)]

\* A mapping keyed by the network of each site.
sites_dict_by_network(site_list) ==
    dict([i \in 1..Len(site_list) |-> <<site_list[i].network, site_list[i]>>])

\* dict([(site.code, site) for site in site_list])
sites_dict(site_list) ==
    dict([i \in 1..Len(site_list) |-> <<site_list[i].code, site_list[i]>>])

\* Cache Store: what cache._get_cached_sites(source) returns.
_get_cached_sites(source) == cached_sites[source]

\* Cache Store: what cache._update_cache_sites(site_list, source) leaves stored.
_update_cache_sites(site_list, source) == sites_dict(site_list)

\* The mappings the Cache Store may hold for a Source.
CachedSiteValues(source) ==
    {sites_dict(site_list_of(a, source)) : a \in SiteLists}

\* A class attribute that holds what any instance has assigned.
Source_sites_shared(self) ==
    IF \E s \in DOMAIN Source : Source[s]._sites # <<>>
    THEN (CHOOSE v \in {Source[s]._sites : s \in DOMAIN Source} : v # <<>>)[1]
    ELSE {}

\* self._sites as the code reads it: the class attribute {} until assigned.
Source_sites(self) ==
    IF Source[self]._sites = <<>> THEN {} ELSE Source[self]._sites[1]

\* A cache_enabled that leaves out self._use_cache.
Source_cache_enabled_any(self) == cache

\* cache_enabled = self._use_cache and cache
Source_cache_enabled(self) == Source[self]._use_cache /\ cache

\* The progress of one accessor call on a Source: the attribute and the store
\* as the call has left them so far, the calls made, the error raised (if any),
\* and whether the routine has returned.
SourceRun(self) ==
    [sites |-> Source[self]._sites, store |-> cached_sites[self],
     log |-> <<>>, err |-> "none", done |-> FALSE]

\* A cache lookup that adopts the cached mapping and goes on to the remote fetch.
_update_sites_cached_falls_through(self, r, fault) ==
    IF ~Source_cache_enabled(self) THEN r
    ELSE LET c == Call(r, "_get_cached_sites", _get_cached_sites(self), fault)
         IN  IF c.err = "none" /\ Cardinality(_get_cached_sites(self)) > 0
             THEN [Note(c, "_sites") EXCEPT !.sites = <<_get_cached_sites(self)>>]
             ELSE c

\* _update_sites, the cache lookup.
_update_sites_cached(self, r, fault) ==
    IF ~Source_cache_enabled(self) THEN r
    ELSE LET c == Call(r, "_get_cached_sites", _get_cached_sites(self), fault)
         IN  IF c.err = "none" /\ Cardinality(_get_cached_sites(self)) > 0
             THEN [Note(c, "_sites") EXCEPT !.sites = <<_get_cached_sites(self)>>,
                                            !.done = TRUE]
             ELSE c

\* A cache write made before the remote fetch.
_update_sites_remote_after_store(self, r, answer, fault) ==
    IF r.err # "none" \/ r.done THEN r
    ELSE LET w == IF Source_cache_enabled(self)
                  THEN Call(r, "_update_cache_sites", site_list_of(answer, self), fault)
                  ELSE r
             c == IF w.err # "none" THEN w ELSE Call(w, "GetSites", answer, fault)
         IN  IF c.err # "none" THEN c
             ELSE [Note(c, "_sites") EXCEPT
                      !.sites = <<sites_dict(site_list_of(answer, self))>>,
                      !.done = TRUE]

\* _update_sites, the remote fetch.
_update_sites_remote(self, r, answer, fault) ==
    IF r.err # "none" \/ r.done THEN r
    ELSE LET c == Call(r, "GetSites", answer, fault)
         IN  IF c.err # "none" THEN c
             ELSE [Note(c, "_sites") EXCEPT
                      !.sites = <<sites_dict(site_list_of(answer, self))>>]

\* A cache write that takes the assignment of _sites back when it fails.
_update_sites_store_rollback(self, r, answer, fault) ==
    IF r.err # "none" \/ r.done \/ ~Source_cache_enabled(self) THEN r
    ELSE LET site_list == site_list_of(answer, self)
             c == Call(r, "_update_cache_sites", site_list, fault)
         IN  IF c.err # "none" THEN [c EXCEPT !.sites = Source[self]._sites]
             ELSE [c EXCEPT !.store = _update_cache_sites(site_list, self)]

\* No cache write.
_update_sites_store_skipped(self, r, answer, fault) == r

\* _update_sites, the cache write.
_update_sites_store(self, r, answer, fault) ==
    IF r.err # "none" \/ r.done \/ ~Source_cache_enabled(self) THEN r
    ELSE LET site_list == site_list_of(answer, self)
             c == Call(r, "_update_cache_sites", site_list, fault)
         IN  IF c.err # "none" THEN c
             ELSE [c EXCEPT !.store = _update_cache_sites(site_list, self)]

_update_sites(self, answer, fault) ==
    _update_sites_store(self,
        _update_sites_remote(self,
            _update_sites_cached(self, SourceRun(self), fault),
            answer, fault),
        answer, fault)

\* A test that always asks for an update.
Source_sites_empty_always(self) == TRUE

\* `if not self._sites`
Source_sites_empty(self) == Cardinality(Source_sites(self)) = 0

\* The property Source.sites, up to its return.
Source_sites_run(self, answer, fault) ==
    IF Source_sites_empty(self) THEN _update_sites(self, answer, fault)
    ELSE SourceRun(self)

\* An access is given no more inputs than it consumes.  `r` is the access as
\* it runs when no call fails and every gateway call is given the answer
\* `unused`: the calls it makes do not depend on the answers of later calls.
\* A fault is the number of a call the access makes (0: no call fails).
FaultsOf(r) == 0..Count(r.log, CollaboratorOps)
\* The answers of the gateway operation `op` in the access.
AnswersOf(r, op, answers, unused) ==
    IF Count(r.log, {op}) > 0 THEN answers ELSE {unused}

\* The record of an accessor call: the accessor and the instance, whether the
\* instance was as constructed before the call (fresh), whether the call
\* repeats a successful call of the same accessor that found the instance as
\* constructed (again), the error raised, the value returned and the calls
\* and assignments made.  A change of the Cache Store by another process
\* clears the record.
Called(acc, ent, fresh, r, ret) ==
    [acc |-> acc, ent |-> ent, fresh |-> fresh,
     again |-> (last.acc = acc /\ last.ent = ent /\ last.fresh /\ last.err = "none"),
     err |-> r.err,
     ret |-> IF r.err = "none" THEN <<ret>> ELSE <<>>, log |-> r.log]

NoCall ==
    [acc |-> "none", ent |-> "none", fresh |-> FALSE, again |-> FALSE,
     err |-> "none", ret |-> <<>>, log |-> <<>>]

sites(self) ==
    \E answer \in AnswersOf(Source_sites_run(self, <<>>, 0), "GetSites",
                             SiteLists, <<>>) :
      \E fault \in FaultsOf(Source_sites_run(self, answer, 0)) :
        LET r == Source_sites_run(self, answer, fault)
        IN  /\ Source' = [Source EXCEPT ![self]._sites = r.sites]
            /\ cached_sites' = [cached_sites EXCEPT ![self] = r.store]
            /\ last' = Called("sites", self, Source[self]._sites = <<>>, r, r.sites)
            /\ UNCHANGED <<cache, frame_truth, Site, TimeSeries, cached_timeseries>>

\* Another process rewrites what the Cache Store holds for a Source.
CacheStoreSites(source) ==
    /\ cache
    /\ \E v \in CachedSiteValues(source) :
          /\ v # cached_sites[source]
          /\ cached_sites' = [cached_sites EXCEPT ![source] = v]
    /\ last' = NoCall
    /\ UNCHANGED <<cache, frame_truth, Source, Site, TimeSeries, cached_timeseries>>

(***************************************************************************)
(* TimeSeries                                                              *)
(***************************************************************************)
\* The variable code of the i-th series of a catalog.
VarCodes == <<"00060", "00065", "00010", "00045">>

\* GetValuesObject answers: the values and the unit of the response.
Responses ==
    { [values |-> <<>>,  unit |-> "cfs"],
      [values |-> <<3>>, unit |-> "cfs"],
      [values |-> <<4>>, unit |-> ""] }

NoResponse == [values |-> <<>>, unit |-> "cfs"]

\* util._pandas_series_from_wml_TimeSeriesResponseType(timeseries_resp):
\* the pair (series, quantity).
_pandas_series_from_wml_TimeSeriesResponseType(timeseries_resp) ==
    <<timeseries_resp.values, timeseries_resp.unit>>

\* TimeSeries.__init__: nothing fetched, _series and _quantity not assigned.
NewTimeSeries(variable, site) ==
    [variable |-> variable, site |-> site, _series |-> <<>>, _quantity |-> <<>>]

\* The progress of one accessor call on a TimeSeries.
TimeSeriesRun(ts, log) == [ts |-> ts, log |-> log, err |-> "none"]

\* An assignment of the series alone.
_update_series_assign_series_only(ts, pair) ==
    [ts EXCEPT !._series = <<pair[1]>>]

\* The tuple assignment of core.py 202-203.
_update_series_assign(ts, pair) ==
    [ts EXCEPT !._series = <<pair[1]>>, !._quantity = <<pair[2]>>]

\* An update that assigns an empty pair when the call fails.
_update_series_assign_on_failure(r, answer, fault) ==
    LET c == Call(r, "GetValuesObject", answer, fault)
    IN  IF c.err # "none"
        THEN [c EXCEPT !.ts = _update_series_assign(@, <<<<>>, "">>)]
        ELSE [Note(Note(c, "_series"), "_quantity") EXCEPT
                 !.ts = _update_series_assign(
                            @, _pandas_series_from_wml_TimeSeriesResponseType(answer))]

_update_series(r, answer, fault) ==
    LET c == Call(r, "GetValuesObject", answer, fault)
    IN  IF c.err # "none" THEN c
        ELSE [Note(Note(c, "_series"), "_quantity") EXCEPT
                 !.ts = _update_series_assign(
                            @, _pandas_series_from_wml_TimeSeriesResponseType(answer))]

\* A length that is always 0.
series_len_zero(ts) == 0

\* len(self._series): 0 for the class attribute () and for an empty series.
series_len(ts) == IF ts._series = <<>> THEN 0 ELSE Len(ts._series[1])

\* `not self._quantity`: None, or a quantity that is itself false.
quantity_falsy(ts) == ts._quantity = <<>> \/ ts._quantity[1] = ""

\* The property TimeSeries.series, up to its return.
TimeSeries_series_run(r, answer, fault) ==
    IF series_len(r.ts) = 0 THEN _update_series(r, answer, fault) ELSE r

\* The property TimeSeries.quantity, up to its return.
TimeSeries_quantity_run(r, answer, fault) ==
    IF quantity_falsy(r.ts) THEN _update_series(r, answer, fault) ELSE r

TimeSeriesFresh(ts) == ts._series = <<>> /\ ts._quantity = <<>>

series(self) ==
    \E answer \in AnswersOf(TimeSeries_series_run(TimeSeriesRun(TimeSeries[self], <<>>),
                                                 NoResponse, 0),
                             "GetValuesObject", Responses, NoResponse) :
      \E fault \in FaultsOf(TimeSeries_series_run(TimeSeriesRun(TimeSeries[self], <<>>),
                                                answer, 0)) :
        LET r == TimeSeries_series_run(TimeSeriesRun(TimeSeries[self], <<>>),
                                       answer, fault)
        IN  /\ TimeSeries' = [TimeSeries EXCEPT ![self] = r.ts]
            /\ last' = Called("series", self, TimeSeriesFresh(TimeSeries[self]),
                              r, r.ts._series)
            /\ UNCHANGED <<cache, frame_truth, Source, Site, cached_sites,
                           cached_timeseries>>

quantity(self) ==
    \E answer \in AnswersOf(TimeSeries_quantity_run(TimeSeriesRun(TimeSeries[self], <<>>),
                                                 NoResponse, 0),
                             "GetValuesObject", Responses, NoResponse) :
      \E fault \in FaultsOf(TimeSeries_quantity_run(TimeSeriesRun(TimeSeries[self], <<>>),
                                                answer, 0)) :
        LET r == TimeSeries_quantity_run(TimeSeriesRun(TimeSeries[self], <<>>),
                                       answer, fault)
        IN  /\ TimeSeries' = [TimeSeries EXCEPT ![self] = r.ts]
            /\ last' = Called("quantity", self, TimeSeriesFresh(TimeSeries[self]),
                              r, r.ts._quantity)
            /\ UNCHANGED <<cache, frame_truth, Source, Site, cached_sites,
                           cached_timeseries>>

(***************************************************************************)
(* Site                                                                    *)
(***************************************************************************)
\* GetSiteInfoObject answers: .site is a list of site entries, each with a
\* list .seriesCatalog of catalogs, each with a list .series.  Only the first
\* catalog of the first site entry carries series here.
wml_series(i) == [variable |-> VarCodes[i]]
Catalog(n) == [series |-> [i \in 1..n |-> wml_series(i)]]
SiteEntry(nc, n) ==
    [seriesCatalog |-> [k \in 1..nc |-> IF k = 1 THEN Catalog(n) ELSE Catalog(0)]]
SiteInfoResponse(ns, nc, n) ==
    [site |-> [k \in 1..ns |-> IF k = 1 THEN SiteEntry(nc, n) ELSE SiteEntry(1, 0)]]
\* One site with one catalog of any length; two sites, two catalogs, each with
\* the longest catalog; and a site with no catalog.
SiteInfos ==
    {SiteInfoResponse(1, 1, n) : n \in 0..MaxSeries}
    \cup {SiteInfoResponse(2, 1, MaxSeries), SiteInfoResponse(1, 2, MaxSeries),
          SiteInfoResponse(1, 0, 0)}

NoSiteInfo == SiteInfoResponse(1, 1, 0)

\* util._timeseries_from_wml_series(series, site): a TimeSeries of the Site.
_timeseries_from_wml_series(wml, site) == NewTimeSeries(wml.variable, site)

\* Cache Store: what cache._get_cached_timeseries_list(site) returns.
_get_cached_timeseries_list(store) == store

\* Cache Store: what cache._update_cache_timeseries(site) leaves stored.
_update_cache_timeseries(timeseries_list) == timeseries_list

\* The lists the Cache Store may hold for a Site: the first n variables, in
\* the catalog's order or in the reverse order.
CachedTimeSeriesValues(site) ==
    {[i \in 1..n |-> NewTimeSeries(VarCodes[i], site)] : n \in 0..MaxSeries}
    \cup {[i \in 1..n |-> NewTimeSeries(VarCodes[n + 1 - i], site)] : n \in 0..MaxSeries}

\* The progress of one accessor call on a Site.
SiteRun(self) ==
    [site_info |-> Site[self]._site_info,
     timeseries_list |-> Site[self]._timeseries_list,
     dataframe |-> Site[self]._dataframe,
     store |-> cached_timeseries[self],
     log |-> <<>>, err |-> "none"]

\* The shape check of core.py 96-100.
site_info_unsupported(site_info) ==
    Len(site_info.site) > 1 \/ Len(site_info.site[1].seriesCatalog) > 1

\* The assignment of core.py 93-94 and the check after it.
_update_site_info_assign(r, site_info) ==
    LET a == [Note(r, "_site_info") EXCEPT !.site_info = <<site_info>>]
    IN  IF site_info_unsupported(site_info)
        THEN [a EXCEPT !.err = "NotImplementedError"]
        ELSE a

_update_site_info(r, site_info, fault) ==
    LET c == Call(r, "GetSiteInfoObject", site_info, fault)
    IN  IF c.err # "none" THEN c ELSE _update_site_info_assign(c, site_info)

\* A test that takes every _site_info as unset.
site_info_falsy_always(r) == TRUE

\* `not self._site_info`: None is false, a response object is true.
site_info_falsy(r) == r.site_info = <<>>

\* The property Site.site_info, up to its return.
Site_site_info_run(r, site_info, fault) ==
    IF site_info_falsy(r) THEN _update_site_info(r, site_info, fault) ELSE r

\* self._timeseries_list as the code reads it: the class attribute () until
\* assigned.
timeseries_list_of(r) ==
    IF r.timeseries_list = <<>> THEN <<>> ELSE r.timeseries_list[1]

\* cache_enabled = self._use_cache and cache
Site_cache_enabled(self) == Site[self]._use_cache /\ cache

\* _update_timeseries_list from core.py 112 on: the list built from the
\* site-detail payload, and the cache write.
_update_timeseries_list_remote(self, r, site_info, fault) ==
    LET g == Site_site_info_run(r, site_info, fault)
    IN  IF g.err # "none" THEN g
        ELSE IF Len(g.site_info[1].site[1].seriesCatalog) = 0
        THEN [g EXCEPT !.err = "IndexError"]
        ELSE
          LET series_list == g.site_info[1].site[1].seriesCatalog[1].series
              built == [i \in 1..Len(series_list) |->
                          _timeseries_from_wml_series(series_list[i], self)]
              a == [Note(g, "_timeseries_list") EXCEPT !.timeseries_list = <<built>>]
          IN  IF ~Site_cache_enabled(self) THEN a
              ELSE LET c == Call(a, "_update_cache_timeseries", built, fault)
                   IN  IF c.err # "none" THEN c
                       ELSE [c EXCEPT !.store = _update_cache_timeseries(built)]

_update_timeseries_list(self, r, site_info, fault) ==
    IF ~Site_cache_enabled(self)
    THEN _update_timeseries_list_remote(self, r, site_info, fault)
    ELSE LET cached_timeseries_list == _get_cached_timeseries_list(r.store)
             c == Call(r, "_get_cached_timeseries_list", cached_timeseries_list, fault)
         IN  IF c.err # "none" THEN c
             ELSE IF Len(cached_timeseries_list) > 0
             THEN [Note(c, "_timeseries_list") EXCEPT
                      !.timeseries_list = <<cached_timeseries_list>>]
             ELSE _update_timeseries_list_remote(self, c, site_info, fault)

\* `if not len(self._timeseries_list)`
timeseries_list_empty(r) == Len(timeseries_list_of(r)) = 0

\* The property Site.timeseries_list, up to its return.
Site_timeseries_list_run(self, r, site_info, fault) ==
    IF timeseries_list_empty(r)
    THEN _update_timeseries_list(self, r, site_info, fault)
    ELSE r

\* The generator of core.py 87-88 from the i-th time series on: ts.series is
\* read for each time series in turn, and fetched where it is still empty.
RECURSIVE ts_dict_items(_, _, _, _, _)
ts_dict_items(r, i, items, answers, fault) ==
    IF r.err # "none" \/ i > Len(timeseries_list_of(r))
    THEN [run |-> r, items |-> items]
    ELSE LET ts == timeseries_list_of(r)[i]
             t == TimeSeries_series_run(
                      TimeSeriesRun(ts, r.log),
                      answers[Count(r.log, {"GetValuesObject"}) + 1], fault)
             n == [r EXCEPT !.timeseries_list = <<[@[1] EXCEPT ![i] = t.ts]>>,
                            !.log = t.log, !.err = t.err]
         IN  ts_dict_items(n, i + 1,
                           IF t.err # "none" THEN items
                           ELSE Append(items, <<ts.variable, t.ts._series[1]>>),
                           answers, fault)

\* pandas.DataFrame(ts_dict): one column for each variable code.
DataFrame(ts_dict) == ts_dict

_update_dataframe(self, r, site_info, answers, fault) ==
    LET g == Site_timeseries_list_run(self, r, site_info, fault)
        d == ts_dict_items(g, 1, <<>>, answers, fault)
    IN  IF g.err # "none" THEN g
        ELSE IF d.run.err # "none" THEN d.run
        ELSE [Note(d.run, "_dataframe") EXCEPT
                 !.dataframe = <<DataFrame(dict(d.items))>>]

\* A test that takes every frame as one with data.
dataframe_nonempty_always(df) == TRUE

\* bool(DataFrame) where pandas defines it: the frame has a column and a row.
dataframe_nonempty(df) == \E column \in df : Len(column[2]) > 0

\* `if not self._dataframe`, for a frame already built: pandas before 0.13
\* answers by the emptiness of the frame, pandas since then raises ValueError.
FrameTruths == {"nonempty", "raises"}

\* `if not self._timeseries_list`
timeseries_list_falsy(r) == Len(timeseries_list_of(r)) = 0

\* The property Site.dataframe, up to its return.
Site_dataframe_run(self, r, site_info, answers, fault) ==
    LET u == IF timeseries_list_falsy(r)
             THEN _update_site_info(r, site_info, fault)
             ELSE r
    IN  IF u.err # "none" THEN u
        ELSE IF u.dataframe = <<>>
        THEN _update_dataframe(self, u, site_info, answers, fault)
        ELSE IF frame_truth = "raises" THEN [u EXCEPT !.err = "ValueError"]
        ELSE IF ~dataframe_nonempty(u.dataframe[1])
        THEN _update_dataframe(self, u, site_info, answers, fault)
        ELSE u

SiteFresh(self) ==
    /\ Site[self]._site_info = <<>>
    /\ Site[self]._timeseries_list = <<>>
    /\ Site[self]._dataframe = <<>>

\* What an accessor call leaves in the Site and in the Cache Store.
SiteCommit(self, r) ==
    /\ Site' = [Site EXCEPT ![self]._site_info = r.site_info,
                            ![self]._timeseries_list = r.timeseries_list,
                            ![self]._dataframe = r.dataframe]
    /\ cached_timeseries' = [cached_timeseries EXCEPT ![self] = r.store]
    /\ UNCHANGED <<cache, frame_truth, Source, TimeSeries, cached_sites>>

site_info(self) ==
    \E answer \in AnswersOf(Site_site_info_run(SiteRun(self), NoSiteInfo, 0),
                             "GetSiteInfoObject", SiteInfos, NoSiteInfo) :
      \E fault \in FaultsOf(Site_site_info_run(SiteRun(self), answer, 0)) :
        LET r == Site_site_info_run(SiteRun(self), answer, fault)
        IN  /\ SiteCommit(self, r)
            /\ last' = Called("site_info", self, SiteFresh(self), r, r.site_info)

timeseries_list(self) ==
    \E answer \in AnswersOf(Site_timeseries_list_run(self, SiteRun(self), NoSiteInfo, 0),
                             "GetSiteInfoObject", SiteInfos, NoSiteInfo) :
      \E fault \in FaultsOf(Site_timeseries_list_run(self, SiteRun(self), answer, 0)) :
        LET r == Site_timeseries_list_run(self, SiteRun(self), answer, fault)
        IN  /\ SiteCommit(self, r)
            /\ last' = Called("timeseries_list", self, SiteFresh(self), r,
                              r.timeseries_list)

\* [series.variable for series in self.timeseries_list]
variables(self) ==
    \E answer \in AnswersOf(Site_timeseries_list_run(self, SiteRun(self), NoSiteInfo, 0),
                             "GetSiteInfoObject", SiteInfos, NoSiteInfo) :
      \E fault \in FaultsOf(Site_timeseries_list_run(self, SiteRun(self), answer, 0)) :
        LET r == Site_timeseries_list_run(self, SiteRun(self), answer, fault)
        IN  /\ SiteCommit(self, r)
            /\ last' = Called("variables", self, SiteFresh(self), r,
                              [i \in 1..Len(timeseries_list_of(r)) |->
                                  timeseries_list_of(r)[i].variable])

\* The answers of the first k GetValuesObject calls of an access.
ValuesAnswers(k) ==
    {answers \in [1..MaxSeries -> Responses] :
        \A i \in (k + 1)..MaxSeries : answers[i] = NoResponse}
NoResponses == [i \in 1..MaxSeries |-> NoResponse]

dataframe(self) ==
    \E answer \in AnswersOf(Site_dataframe_run(self, SiteRun(self), NoSiteInfo,
                                               NoResponses, 0),
                            "GetSiteInfoObject", SiteInfos, NoSiteInfo) :
      \E answers \in ValuesAnswers(
                        Count(Site_dataframe_run(self, SiteRun(self), answer,
                                                 NoResponses, 0).log,
                              {"GetValuesObject"})) :
        \E fault \in FaultsOf(Site_dataframe_run(self, SiteRun(self), answer,
                                                 answers, 0)) :
          LET r == Site_dataframe_run(self, SiteRun(self), answer, answers, fault)
          IN  /\ SiteCommit(self, r)
              /\ last' = Called("dataframe", self, SiteFresh(self), r, r.dataframe)

\* Another process rewrites what the Cache Store holds for a Site.
CacheStoreTimeSeries(site) ==
    /\ cache
    /\ \E v \in CachedTimeSeriesValues(site) :
          /\ v # cached_timeseries[site]
          /\ cached_timeseries' = [cached_timeseries EXCEPT ![site] = v]
    /\ last' = NoCall
    /\ UNCHANGED <<cache, frame_truth, Source, Site, TimeSeries, cached_sites>>

(***************************************************************************)
(* The state after construction, and the specifications.                   *)
(***************************************************************************)
\* A constructor that assigns an empty mapping to _sites.
NewSource_eager(use_cache) == [_use_cache |-> use_cache, _sites |-> <<{}>>]

\* Source.__init__: url, suds_client and _use_cache; _sites is not assigned.
NewSource(use_cache) == [_use_cache |-> use_cache, _sites |-> <<>>]

\* Site.__init__: the identity and _use_cache; no lazy attribute is assigned.
NewSite(code, network, source, use_cache) ==
    [code |-> code, network |-> network, source |-> source,
     _use_cache |-> use_cache,
     _site_info |-> <<>>, _timeseries_list |-> <<>>, _dataframe |-> <<>>]

\* The Sources `ids` constructed, each with or without use_cache, and the
\* Cache Store holding any mapping for each of them.
SourcesConstructed(ids) ==
    /\ \E use_cache \in [ids -> BOOLEAN] :
          Source = [s \in ids |-> NewSource(use_cache[s])]
    /\ \E stored \in [ids -> UNION {CachedSiteValues(s) : s \in ids}] :
          /\ \A s \in ids : stored[s] \in CachedSiteValues(s)
          /\ cached_sites = IF cache THEN stored ELSE [s \in ids |-> {}]

\* The Sites `ids` constructed, and the Cache Store holding any list for each.
SitesConstructed(ids) ==
    /\ \E use_cache \in [ids -> BOOLEAN] :
          Site = [x \in ids |-> NewSite("01234", "NWISDV", "s1", use_cache[x])]
    /\ \E stored \in [ids -> UNION {CachedTimeSeriesValues(x) : x \in ids}] :
          /\ \A x \in ids : stored[x] \in CachedTimeSeriesValues(x)
          /\ cached_timeseries = IF cache THEN stored ELSE [x \in ids |-> <<>>]

\* The TimeSeries `ids` constructed by the caller, the i-th for the i-th variable.
TimeSeriesConstructed(ids) ==
    TimeSeries = [t \in ids |->
                     NewTimeSeries(IF t = "t1" THEN VarCodes[1] ELSE VarCodes[2], "x1")]

SourceNext ==
    \/ \E self \in DOMAIN Source : sites(self)
    \/ \E source \in DOMAIN Source : CacheStoreSites(source)

SiteNext ==
    \/ \E self \in DOMAIN Site : site_info(self)
    \/ \E self \in DOMAIN Site : timeseries_list(self)
    \/ \E self \in DOMAIN Site : variables(self)
    \/ \E self \in DOMAIN Site : dataframe(self)
    \/ \E site \in DOMAIN Site : CacheStoreTimeSeries(site)

TimeSeriesNext ==
    \/ \E self \in DOMAIN TimeSeries : series(self)
    \/ \E self \in DOMAIN TimeSeries : quantity(self)

Next == SourceNext \/ SiteNext \/ TimeSeriesNext

\* One Source and no other instance.
SourceInit ==
    /\ cache \in BOOLEAN
    /\ frame_truth = "nonempty"
    /\ last = NoCall
    /\ SourcesConstructed({"s1"})
    /\ SitesConstructed({})
    /\ TimeSeriesConstructed({})

SourceSpec == SourceInit /\ [][SourceNext]_vars

\* One Site and no other instance.
SiteInit ==
    /\ cache \in BOOLEAN
    /\ frame_truth \in FrameTruths
    /\ last = NoCall
    /\ SourcesConstructed({})
    /\ SitesConstructed({"x1"})
    /\ TimeSeriesConstructed({})

SiteSpec == SiteInit /\ [][SiteNext]_vars

\* Two TimeSeries and no other instance.
TimeSeriesInit ==
    /\ cache = FALSE
    /\ frame_truth = "nonempty"
    /\ last = NoCall
    /\ SourcesConstructed({})
    /\ SitesConstructed({})
    /\ TimeSeriesConstructed({"t1", "t2"})

TimeSeriesSpec == TimeSeriesInit /\ [][TimeSeriesNext]_vars

\* Two instances of each class in turn, constructed alike and with nothing in
\* the Cache Store yet: two Sources with caching, two Sites and two TimeSeries
\* without a Cache Store.
TwoSourcesInit ==
    /\ cache \in BOOLEAN
    /\ frame_truth = "nonempty"
    /\ last = NoCall
    /\ Source = [s \in {"s1", "s2"} |-> NewSource(TRUE)]
    /\ cached_sites = [s \in {"s1", "s2"} |-> {}]
    /\ SitesConstructed({})
    /\ TimeSeriesConstructed({})

TwoSitesInit ==
    /\ cache = FALSE
    /\ frame_truth = "nonempty"
    /\ last = NoCall
    /\ SourcesConstructed({})
    /\ Site = [x \in {"x1", "x2"} |->
                 NewSite(IF x = "x1" THEN "01234" ELSE "05678", "NWISDV", "s1", FALSE)]
    /\ cached_timeseries = [x \in {"x1", "x2"} |-> <<>>]
    /\ TimeSeriesConstructed({})

TwoInit == TwoSourcesInit \/ TwoSitesInit \/ TimeSeriesInit

\* The accessors that reach every assignment of a backing value: `dataframe`
\* runs the properties timeseries_list and series inside it.
TwoNext ==
    \/ \E self \in DOMAIN Source : sites(self)
    \/ \E source \in DOMAIN Source : CacheStoreSites(source)
    \/ \E self \in DOMAIN Site : site_info(self)
    \/ \E self \in DOMAIN Site : dataframe(self)
    \/ \E self \in DOMAIN TimeSeries : series(self)
    \/ \E self \in DOMAIN TimeSeries : quantity(self)

TwoSpec == TwoInit /\ [][TwoNext]_vars

\* The instances of one class, with every accessor of the class: an accessor
\* reads and writes the instance it is called on and the Cache Store entry of
\* that instance, and nothing of another instance.
Init == SourceInit \/ SiteInit \/ TimeSeriesInit

Spec == Init /\ [][Next]_vars

(***************************************************************************)
(* The claims.  `last` is the call an access has just made, so a formula   *)
(* about an access relates the state before it (unprimed) to `last'`.      *)
(***************************************************************************)
\* The operations of a log, in order.
Ops(log) == [i \in 1..Len(log) |-> log[i].op]

(* C2: with caching enabled for a Source and a non-empty mapping in the    *)
(* Cache Store, a successful access to `sites` on a Source whose mapping   *)
(* is still empty returns exactly the cached mapping, makes no gateway     *)
(* call and does not write to the Cache Store.                             *)
C2_CachePrecedence ==
    [][\A s \in DOMAIN Source :
          ( /\ Source[s]._use_cache /\ cache
            /\ cached_sites[s] # {}
            /\ Source[s]._sites \in {<<>>, <<{}>>}
            /\ last'.acc = "sites" /\ last'.ent = s /\ last'.err = "none" )
          => /\ last'.ret = << <<cached_sites[s]>> >>
             /\ Source'[s]._sites = <<cached_sites[s]>>
             /\ Count(last'.log, GatewayOps) = 0
             /\ Count(last'.log, {"_update_cache_sites"}) = 0
             /\ cached_sites' = cached_sites
      ]_vars

\* An access to `sites` has just adopted a non-empty cached mapping.
C2_Witness ==
    /\ last.acc = "sites" /\ last.err = "none"
    /\ Ops(last.log) = <<"_get_cached_sites", "_sites">>
    /\ last.log[1].val[1] # {}
    /\ Source[last.ent]._sites = <<last.log[1].val[1]>>

(* C3: with caching enabled for a Source and nothing in the Cache Store    *)
(* for it, a successful access to `sites` on a Source whose mapping is     *)
(* still empty calls list-sites once and writes to the Cache Store exactly *)
(* the site list built from the answer of that call.                       *)
C3_CachePopulation ==
    [][\A s \in DOMAIN Source :
          ( /\ Source[s]._use_cache /\ cache
            /\ cached_sites[s] = {}
            /\ Source[s]._sites \in {<<>>, <<{}>>}
            /\ last'.acc = "sites" /\ last'.ent = s /\ last'.err = "none" )
          => /\ Count(last'.log, {"GetSites"}) = 1
             /\ LET fetched == Calls(last'.log, {"GetSites"})[1].val[1]
                IN  /\ Calls(last'.log, {"_update_cache_sites"})
                         = << [op |-> "_update_cache_sites",
                               val |-> <<site_list_of(fetched, s)>>] >>
                    /\ cached_sites'[s]
                         = _update_cache_sites(site_list_of(fetched, s), s)
      ]_vars

\* An access to `sites` has just fetched a non-empty site list and written it.
C3_Witness ==
    /\ last.acc = "sites" /\ last.err = "none"
    /\ Ops(last.log) = <<"_get_cached_sites", "GetSites", "_sites", "_update_cache_sites">>
    /\ last.log[1].val[1] = {}
    /\ Len(last.log[2].val[1]) = MaxSites
    /\ cached_sites[last.ent] = Source[last.ent]._sites[1]

\* Every TimeSeries there is: those the caller built and those of a Site's list.
AllTimeSeries ==
    {TimeSeries[t] : t \in DOMAIN TimeSeries}
    \cup UNION {{timeseries_list_of(SiteRun(x))[i] :
                    i \in 1..Len(timeseries_list_of(SiteRun(x)))} :
                x \in DOMAIN Site}

(* C6: in every reachable state, a TimeSeries has either neither _series   *)
(* nor _quantity assigned, or both of them assigned from one and the same  *)
(* get-values response; no state has one of them assigned and the other    *)
(* not.                                                                    *)
C6_AtomicPair ==
    \A ts \in AllTimeSeries :
        \/ ts._series = <<>> /\ ts._quantity = <<>>
        \/ /\ ts._series # <<>> /\ ts._quantity # <<>>
           /\ \E answer \in Responses :
                 <<ts._series[1], ts._quantity[1]>>
                     = _pandas_series_from_wml_TimeSeriesResponseType(answer)

\* An access to `quantity` has just fetched the pair on a fresh TimeSeries.
C6_Witness ==
    /\ last.acc = "quantity" /\ last.err = "none" /\ last.fresh
    /\ Ops(last.log) = <<"GetValuesObject", "_series", "_quantity">>
    /\ TimeSeries[last.ent]._series = <<last.log[1].val[1].values>>
    /\ TimeSeries[last.ent]._quantity = <<last.log[1].val[1].unit>>

(* C8: for a Source or Site whose caching is disabled (use_cache false) or *)
(* with no Cache Store configured, an access to `sites` or to              *)
(* `timeseries_list` makes no Cache Store call, and the value it populates *)
(* is the one built from the gateway response: the mapping of the          *)
(* list-sites answer, the list of the site-detail payload's catalog.       *)
C8_NoCacheWhenDisabled ==
    /\ ( /\ last.acc = "sites"
         /\ ~Source[last.ent]._use_cache \/ ~cache )
       => /\ Count(last.log, CacheOps) = 0
          /\ Count(last.log, {"GetSites"}) = 1 /\ last.err = "none"
               => last.ret = << <<sites_dict(site_list_of(
                                     Calls(last.log, {"GetSites"})[1].val[1],
                                     last.ent))>> >>
    /\ ( /\ last.acc = "timeseries_list"
         /\ ~Site[last.ent]._use_cache \/ ~cache )
       => /\ Count(last.log, CacheOps) = 0
          /\ Count(last.log, {"_timeseries_list"}) = 1 /\ last.err = "none"
               => LET series_list ==
                          Site[last.ent]._site_info[1].site[1].seriesCatalog[1].series
                  IN  last.ret = << <<[i \in 1..Len(series_list) |->
                                         _timeseries_from_wml_series(series_list[i],
                                                                     last.ent)]>> >>

\* A Cache Store is configured, use_cache is false for the Site, and an access
\* to `timeseries_list` has just built a non-empty list from the payload.
C8_Witness ==
    /\ last.acc = "timeseries_list" /\ last.err = "none"
    /\ cache /\ ~Site[last.ent]._use_cache
    /\ Ops(last.log) = <<"GetSiteInfoObject", "_site_info", "_timeseries_list">>
    /\ Len(Site[last.ent]._timeseries_list[1]) > 0

\* A time-series list without what its TimeSeries have fetched.
Identities(attr) ==
    IF attr = <<>> THEN <<>>
    ELSE << [i \in 1..Len(attr[1]) |->
               [variable |-> attr[1][i].variable, site |-> attr[1][i].site]] >>

(* C10: once _sites of a Source holds a non-empty mapping, no step changes *)
(* it, and every access to `sites` returns it and makes no gateway and no  *)
(* Cache Store call, whatever the Cache Store holds by then and whatever   *)
(* the gateway would answer; the same for _timeseries_list of a Site and   *)
(* the accesses to `timeseries_list`.                                      *)
C10_NonEmptyIsNeverRefreshed ==
    [][ /\ \A s \in DOMAIN Source :
              (Source[s]._sites # <<>> /\ Source[s]._sites[1] # {})
              => /\ Source'[s]._sites = Source[s]._sites
                 /\ (last'.acc = "sites" /\ last'.ent = s)
                    => /\ last'.err = "none"
                       /\ last'.ret = <<Source[s]._sites>>
                       /\ last'.log = <<>>
                       /\ cached_sites' = cached_sites
        /\ \A x \in DOMAIN Site :
              (Site[x]._timeseries_list # <<>> /\ Len(Site[x]._timeseries_list[1]) > 0)
              => /\ Identities(Site'[x]._timeseries_list)
                      = Identities(Site[x]._timeseries_list)
                 /\ (last'.acc = "timeseries_list" /\ last'.ent = x)
                    => /\ last'.err = "none"
                       /\ last'.ret = <<Site[x]._timeseries_list>>
                       /\ last'.log = <<>>
                       /\ cached_timeseries' = cached_timeseries
      ]_vars

\* The Cache Store of a Site with caching enabled has been emptied since the
\* Site adopted its list, and an access to `timeseries_list` has just returned
\* the list without any call.
C10_Witness ==
    /\ last.acc = "timeseries_list" /\ last.err = "none" /\ last.log = <<>>
    /\ Site[last.ent]._use_cache /\ cache
    /\ cached_timeseries[last.ent] = <<>>
    /\ last.ret = <<Site[last.ent]._timeseries_list>>
    /\ Len(Site[last.ent]._timeseries_list[1]) > 0

\* The lazy accessors and the gateway operation each of them rests on.
LazyAccessors ==
    {"sites", "site_info", "timeseries_list", "dataframe", "series", "quantity"}
GatewayOpOf(acc) ==
    CASE acc = "sites" -> "GetSites"
      [] acc \in {"site_info", "timeseries_list", "dataframe"} -> "GetSiteInfoObject"
      [] OTHER -> "GetValuesObject"

\* The step is the second of two calls of one lazy accessor on one instance,
\* with no change of the Cache Store in between; the first found the instance
\* as constructed and returned.
SecondCall ==
    /\ last.acc \in LazyAccessors /\ last.fresh /\ last.err = "none"
    /\ last'.acc = last.acc /\ last'.ent = last.ent

\* The gateway answers the second call as it answered the first, and without
\* a transport error.
SameAnswers ==
    /\ last'.err # "TransportError"
    /\ \A i \in 1..Len(last'.log) :
          last'.log[i].op \in GatewayOps
          => \E j \in 1..Len(last.log) :
                last.log[j].op = last'.log[i].op /\ last.log[j].val = last'.log[i].val

\* The first call adopted a non-empty value of the Cache Store.
Adopted(log) ==
    \E i \in 1..Len(log) :
        \/ log[i].op = "_get_cached_sites" /\ Len(log[i].val) > 0 /\ log[i].val[1] # {}
        \/ /\ log[i].op = "_get_cached_timeseries_list" /\ Len(log[i].val) > 0
           /\ Len(log[i].val[1]) > 0

Populated(acc, ret) ==
    CASE acc = "sites" -> ret[1][1] # {}
      [] acc = "site_info" -> TRUE
      [] acc = "timeseries_list" -> Len(ret[1][1]) > 0
      [] acc = "dataframe" ->
            /\ frame_truth = "nonempty"
            /\ \E column \in ret[1][1] : Len(column[2]) > 0
      [] acc = "series" -> Len(ret[1][1]) > 0
      [] OTHER -> ret[1][1] # ""

Malformed(payload) ==
    Len(payload.site) > 1 \/ Len(payload.site[1].seriesCatalog) > 1
MalformedAnswered(log) ==
    \E i \in 1..Len(log) :
        /\ log[i].op = "GetSiteInfoObject" /\ Len(log[i].val) > 0
        /\ Malformed(log[i].val[1])

(* C4: an access to `timeseries_list` that uses no cached list and gets a  *)
(* get-site-detail response with two site entries, or with two series      *)
(* catalogs, fails with NotImplementedError and leaves both _site_info and *)
(* _timeseries_list unset.                                                 *)
C4_InvariantEnforcement ==
    \A x \in DOMAIN Site :
        (last.acc = "timeseries_list" /\ last.ent = x /\ MalformedAnswered(last.log))
        => /\ last.err = "NotImplementedError"
           /\ Site[x]._site_info = <<>>
           /\ Site[x]._timeseries_list = <<>>

(* C5: for a Site without caching whose _site_info would hold a malformed  *)
(* get-site-detail payload, no access to `site_info`, `timeseries_list` or *)
(* `dataframe` returns, and _timeseries_list is never populated.           *)
C5_MalformedIsFatal ==
    \A x \in DOMAIN Site :
        (/\ ~(Site[x]._use_cache /\ cache)
         /\ Site[x]._site_info # <<>> /\ Malformed(Site[x]._site_info[1]))
        => /\ (last.acc \in {"site_info", "timeseries_list", "dataframe"}
               /\ last.ent = x) => last.err # "none"
           /\ Site[x]._timeseries_list = <<>>

\* The places of an operation in a log.
Positions(log, op) == {i \in 1..Len(log) : log[i].op = op}
Before(log, a, b) ==
    \A i \in Positions(log, a) : \A j \in Positions(log, b) : i < j

Columns(frame) == {column[1] : column \in frame}
Variables(attr) ==
    IF attr = <<>> THEN {} ELSE {attr[1][i].variable : i \in 1..Len(attr[1])}

\* C9 as claimed: whenever _dataframe of a Site is populated, it is the table
\* of the list _timeseries_list now holds.
C9_AsClaimed ==
    \A x \in DOMAIN Site :
        Site[x]._dataframe # <<>>
        => Columns(Site[x]._dataframe[1]) = Variables(Site[x]._timeseries_list)

(* C9, amended: a table that `dataframe` returns, and a table with at      *)
(* least one column that _dataframe holds, is the table of the list that   *)
(* _timeseries_list now holds.  (The table without columns, built from an  *)
(* empty list, can stay in _dataframe after the list is populated; it is   *)
(* not returned.)                                                          *)
C9_Coherence ==
    \A x \in DOMAIN Site :
        /\ (Site[x]._dataframe # <<>> /\ Site[x]._dataframe[1] # {})
           => Columns(Site[x]._dataframe[1]) = Variables(Site[x]._timeseries_list)
        /\ (last.acc = "dataframe" /\ last.ent = x /\ last.err = "none")
           => /\ last.ret = <<Site[x]._dataframe>>
              /\ Columns(last.ret[1][1]) = Variables(Site[x]._timeseries_list)

\* The list of a Site was populated after the table without columns had been
\* built, and `dataframe` has just returned a table with the list's columns.
C9_Witness ==
    /\ last.acc = "dataframe" /\ last.err = "none" /\ ~last.fresh
    /\ Positions(last.log, "_dataframe") # {}
    /\ Positions(last.log, "_timeseries_list") = {}
    /\ Columns(last.ret[1][1]) # {}

\* The answer of the first call of a gateway operation in a log.
Answer(log, op) == log[CHOOSE i \in Positions(log, op) : TRUE].val[1]

(* C11: an access to `sites` that returns after a list-sites call, on a    *)
(* Source without caching, returns and stores a mapping whose keys are the *)
(* site codes of the descriptors that list-sites returned, with one Site   *)
(* for each key, built from a descriptor with that code (its code and its  *)
(* network) and bound to this Source.                                      *)
C11_RemoteSiteMapping ==
    \A s \in DOMAIN Source :
        (/\ last.acc = "sites" /\ last.ent = s /\ last.err = "none"
         /\ ~(Source[s]._use_cache /\ cache)
         /\ Positions(last.log, "GetSites") # {})
        => LET descriptors == Answer(last.log, "GetSites")
               mapping == last.ret[1][1]
           IN  /\ Source[s]._sites = <<mapping>>
               /\ {item[1] : item \in mapping}
                    = {descriptors[i].code : i \in 1..Len(descriptors)}
               /\ \A item \in mapping :
                     /\ \A other \in mapping : other[1] = item[1] => other = item
                     /\ item[2].code = item[1]
                     /\ item[2].source = s
                     /\ \E i \in 1..Len(descriptors) :
                           /\ descriptors[i].code = item[1]
                           /\ descriptors[i].network = item[2].network

\* list-sites has returned two descriptors with different codes, and `sites`
\* a mapping with both codes.
C11_Witness ==
    /\ last.acc = "sites" /\ last.err = "none"
    /\ ~(Source[last.ent]._use_cache /\ cache)
    /\ Positions(last.log, "GetSites") # {}
    /\ Len(Answer(last.log, "GetSites")) = 2
    /\ Cardinality(last.ret[1][1]) = 2
    /\ \E item \in last.ret[1][1] : item[1] = "01234" /\ item[2].network = "NWISDV"

\* The collaborator calls of a log that failed.
Failed(log) ==
    {i \in 1..Len(log) : log[i].op \in CollaboratorOps /\ Len(log[i].val) = 0}

(* C12: when a gateway or Cache Store call fails in an accessor call, the  *)
(* accessor call fails with that error and returns nothing; the failing    *)
(* call is the last thing the accessor call does: no gateway call, no      *)
(* Cache Store call and no assignment follows it, and no other call of the *)
(* accessor call has failed.                                               *)
C12_TransportErrorsPropagate ==
    Failed(last.log) # {}
    => /\ last.err = "TransportError"
       /\ last.ret = <<>>
       /\ Failed(last.log) = {Len(last.log)}

\* `dataframe` has failed in a get-values call, after the get-site-detail call
\* and the assignments that precede it.
C12_Witness ==
    /\ last.acc = "dataframe" /\ last.err = "TransportError"
    /\ Positions(last.log, "GetSiteInfoObject") # {}
    /\ Positions(last.log, "_timeseries_list") # {}
    /\ last.log[Len(last.log)].op = "GetValuesObject"
    /\ Len(last.log[Len(last.log)].val) = 0

\* No lazy backing value of any instance is assigned, and no call has been made.
Unpopulated ==
    /\ \A s \in DOMAIN Source : Source[s]._sites = <<>>
    /\ \A x \in DOMAIN Site :
          /\ Site[x]._site_info = <<>>
          /\ Site[x]._timeseries_list = <<>>
          /\ Site[x]._dataframe = <<>>
    /\ \A t \in DOMAIN TimeSeries :
          TimeSeries[t]._series = <<>> /\ TimeSeries[t]._quantity = <<>>
    /\ last.log = <<>>

\* The accessors of each class.
SourceAccessors == {"sites"}
SiteAccessors == {"site_info", "timeseries_list", "variables", "dataframe"}
TimeSeriesAccessors == {"series", "quantity"}

C14_SiteInfoMemoized ==
    [][ \A x \in DOMAIN Site :
           Site[x]._site_info # <<>>
           => /\ Site'[x]._site_info = Site[x]._site_info
              /\ (last'.acc \in SiteAccessors /\ last'.ent = x)
                 => Positions(last'.log, "GetSiteInfoObject") = {}
      ]_vars

\* The non-empty list that the Cache Store returns in an access, if any.
CacheHits(log) ==
    {i \in Positions(log, "_get_cached_timeseries_list") :
        Len(log[i].val) > 0 /\ Len(log[i].val[1]) > 0}

(* C15: when an access to `timeseries_list`, `variables` or `dataframe`    *)
(* reads a non-empty time-series list from the Cache Store, _timeseries_list*)
(* becomes that list, and the access makes no get-site-detail call and no  *)
(* Cache Store write.                                                      *)
C15_CacheHitAvoidsRemote ==
    \A x \in DOMAIN Site :
        (/\ last.acc \in {"timeseries_list", "variables", "dataframe"}
         /\ last.ent = x /\ CacheHits(last.log) # {})
        => /\ Positions(last.log, "GetSiteInfoObject") = {}
           /\ Positions(last.log, "_update_cache_timeseries") = {}
           /\ \E i \in CacheHits(last.log) :
                 Identities(Site[x]._timeseries_list) = Identities(last.log[i].val)

(* C16: an access to `series` or to `quantity` makes a get-values call if  *)
(* and only if _series is empty (unassigned, or of length 0) when it is    *)
(* called; an access that finds _series non-empty leaves it as it is.      *)
C16_FetchIffSeriesEmpty ==
    [][ \A t \in DOMAIN TimeSeries :
           (last'.acc \in TimeSeriesAccessors /\ last'.ent = t)
           => LET empty == \/ TimeSeries[t]._series = <<>>
                           \/ Len(TimeSeries[t]._series[1]) = 0
              IN  /\ (Positions(last'.log, "GetValuesObject") # {}) <=> empty
                  /\ ~empty => TimeSeries'[t]._series = TimeSeries[t]._series
      ]_vars

(* C17: in an access to `sites` with caching enabled that gets an empty    *)
(* result from the Cache Store and returns, the collaborator calls are     *)
(* get-cached-sites, list-sites, put-sites, in this order and once each,   *)
(* and _sites is assigned between list-sites and put-sites; in no access   *)
(* is put-sites called without a list-sites call before it.                *)
C17_CallOrdering ==
    \A s \in DOMAIN Source :
        (last.acc = "sites" /\ last.ent = s)
        => /\ (/\ last.err = "none"
               /\ \E i \in Positions(last.log, "_get_cached_sites") :
                     Len(last.log[i].val) > 0 /\ last.log[i].val[1] = {})
              => /\ Ops(Calls(last.log, CollaboratorOps))
                      = <<"_get_cached_sites", "GetSites", "_update_cache_sites">>
                 /\ Before(last.log, "GetSites", "_sites")
                 /\ Before(last.log, "_sites", "_update_cache_sites")
           /\ \A j \in Positions(last.log, "_update_cache_sites") :
                 \E i \in Positions(last.log, "GetSites") :
                     i < j /\ Len(last.log[i].val) > 0

\* `sites` has returned after the three calls, with a fetched list of two sites.
C17_Witness ==
    /\ last.acc = "sites" /\ last.err = "none"
    /\ Len(last.log) = 4
    /\ last.log[3].op = "_sites" /\ last.log[4].op = "_update_cache_sites"
    /\ Len(last.log[4].val[1]) = 2
    /\ cached_sites[last.ent] # {}

\* The call of `op` in the log failed.
FailedIn(log, op) == \E i \in Positions(log, op) : Len(log[i].val) = 0

(* C18: an access to `sites` whose list-sites call fails leaves _sites     *)
(* as it was (unassigned or empty) and the Cache Store unwritten; an access*)
(* to `series` or `quantity` whose get-values call fails leaves _series    *)
(* and _quantity as they were (both unassigned on a TimeSeries as          *)
(* constructed); the access that follows the failed one starts with the    *)
(* call the failed one started with.                                       *)
C18_UnchangedOnGatewayFailure ==
    [][ /\ \A s \in DOMAIN Source :
              (last'.acc = "sites" /\ last'.ent = s /\ FailedIn(last'.log, "GetSites"))
              => /\ Source'[s] = Source[s]
                 /\ Source'[s]._sites \in {<<>>, <<{}>>}
                 /\ cached_sites' = cached_sites
                 /\ Positions(last'.log, "_update_cache_sites") = {}
                 /\ Positions(last'.log, "_sites") = {}
        /\ \A t \in DOMAIN TimeSeries :
              (/\ last'.acc \in TimeSeriesAccessors /\ last'.ent = t
               /\ FailedIn(last'.log, "GetValuesObject"))
              => /\ TimeSeries'[t] = TimeSeries[t]
                 /\ last'.fresh
                    => TimeSeries'[t]._series = <<>> /\ TimeSeries'[t]._quantity = <<>>
        /\ (/\ last.acc \in {"sites", "series", "quantity"}
            /\ FailedIn(last.log, "GetSites") \/ FailedIn(last.log, "GetValuesObject")
            /\ last'.acc = last.acc /\ last'.ent = last.ent)
           => /\ Len(last'.log) > 0
              /\ last'.log[1].op = last.log[1].op
      ]_vars

\* The list-sites call of an access to `sites` has failed after the Cache
\* Store, asked first, returned an empty result.
C18_Witness ==
    /\ last.acc = "sites" /\ last.err = "TransportError"
    /\ FailedIn(last.log, "GetSites") /\ Len(last.log) = 2
    /\ last.log[1].op = "_get_cached_sites"
    /\ Source[last.ent]._sites = <<>>
    /\ cached_sites[last.ent] = {}

\* The last access was one to `sites` (to `timeseries_list`) whose Cache Store
\* write failed.
SitesWriteFailed(s) ==
    last.acc = "sites" /\ last.ent = s /\ FailedIn(last.log, "_update_cache_sites")
ListWriteFailed(x) ==
    /\ last.acc = "timeseries_list" /\ last.ent = x
    /\ FailedIn(last.log, "_update_cache_timeseries")

\* The value fetched is in memory after the failed write.
SitesCommitted(s) ==
    /\ last.err = "TransportError"
    /\ Source[s]._sites # <<>>
    /\ {item[1] : item \in Source[s]._sites[1]}
         = {Answer(last.log, "GetSites")[i].code :
               i \in 1..Len(Answer(last.log, "GetSites"))}
    /\ cached_sites[s] = {}
ListCommitted(x) ==
    /\ last.err = "TransportError"
    /\ Site[x]._timeseries_list # <<>>
    /\ Site[x]._site_info # <<>>
    /\ LET series_list == Site[x]._site_info[1].site[1].seriesCatalog[1].series
       IN  /\ Len(Site[x]._timeseries_list[1]) = Len(series_list)
           /\ \A i \in 1..Len(series_list) :
                 Site[x]._timeseries_list[1][i].variable = series_list[i].variable

\* The step is the next access of the same accessor, and it returns the value
\* in memory without any call.
ReturnsWithoutCall(value) ==
    /\ last'.err = "none"
    /\ last'.ret = <<value>>
    /\ last'.log = <<>>

\* C19 as claimed: after a failed Cache Store write the fetched value is in
\* memory, and the next access returns it with no call, whatever was fetched.
C19_AsClaimed ==
    [][ /\ \A s \in DOMAIN Source :
              SitesWriteFailed(s)
              => /\ SitesCommitted(s)
                 /\ (last'.acc = "sites" /\ last'.ent = s)
                    => ReturnsWithoutCall(Source[s]._sites)
        /\ \A x \in DOMAIN Site :
              ListWriteFailed(x)
              => /\ ListCommitted(x)
                 /\ (last'.acc = "timeseries_list" /\ last'.ent = x)
                    => ReturnsWithoutCall(Site[x]._timeseries_list)
      ]_vars

(* C19, amended: when the Cache Store write fails after the remote fetch   *)
(* in `sites` (in `timeseries_list`), the accessor call fails and _sites   *)
(* (_timeseries_list) holds the fetched value; when that value is not      *)
(* empty, the next access returns it with no gateway call and no Cache     *)
(* Store call; when it is empty, the next access starts the population     *)
(* over, with the Cache Store read.                                        *)
C19_WriteFailureKeepsValue ==
    [][ /\ \A s \in DOMAIN Source :
              SitesWriteFailed(s)
              => /\ SitesCommitted(s)
                 /\ (last'.acc = "sites" /\ last'.ent = s)
                    => IF Source[s]._sites[1] # {}
                       THEN ReturnsWithoutCall(Source[s]._sites)
                       ELSE /\ Len(last'.log) > 0
                            /\ last'.log[1].op = "_get_cached_sites"
        /\ \A x \in DOMAIN Site :
              ListWriteFailed(x)
              => /\ ListCommitted(x)
                 /\ (last'.acc = "timeseries_list" /\ last'.ent = x)
                    => IF Len(Site[x]._timeseries_list[1]) > 0
                       THEN ReturnsWithoutCall(Site[x]._timeseries_list)
                       ELSE /\ Len(last'.log) > 0
                            /\ last'.log[1].op = "_get_cached_timeseries_list"
      ]_vars

\* The Cache Store write of an access to `sites` has failed after two sites
\* were fetched; the mapping is in memory and the Cache Store holds nothing.
C19_Witness ==
    /\ last.acc = "sites" /\ FailedIn(last.log, "_update_cache_sites")
    /\ last.err = "TransportError"
    /\ Cardinality(Source[last.ent]._sites[1]) = 2
    /\ cached_sites[last.ent] = {}

(* C20: an accessor call on one Source, Site or TimeSeries leaves the      *)
(* backing values of every other instance of the class as they were; a     *)
(* Source that has assigned nothing to _sites reads it as empty whatever   *)
(* the other Sources hold, so its first access to `sites` performs its own *)
(* population, and the Sites of the mapping it returns are bound to it.    *)
C20_InstanceIsolation ==
    [][ /\ \A s \in DOMAIN Source : s # last'.ent => Source'[s] = Source[s]
        /\ \A x \in DOMAIN Site : x # last'.ent => Site'[x] = Site[x]
        /\ \A t \in DOMAIN TimeSeries : t # last'.ent => TimeSeries'[t] = TimeSeries[t]
        /\ \A s \in DOMAIN Source :
              (last'.acc = "sites" /\ last'.ent = s /\ Source[s]._sites = <<>>)
              => /\ Len(last'.log) > 0
                 /\ last'.log[1].op \in {"_get_cached_sites", "GetSites"}
                 /\ last'.err = "none"
                    => \A item \in last'.ret[1][1] : item[2].source = s
      ]_vars

\* The second Source has just performed its own population while the first
\* holds a non-empty mapping, and the two mappings differ.
C20_Witness ==
    /\ last.acc = "sites" /\ last.ent = "s2" /\ last.fresh /\ last.err = "none"
    /\ Positions(last.log, "GetSites") # {}
    /\ "s1" \in DOMAIN Source
    /\ Source["s1"]._sites # <<>> /\ Source["s1"]._sites[1] # {}
    /\ Source["s2"]._sites # <<>>
    /\ {item[1] : item \in Source["s2"]._sites[1]}
         # {item[1] : item \in Source["s1"]._sites[1]}

====
